---- MODULE Spec2Model ----
(***************************************************************************)
(* slackscan (src/main.c): a scanner that walks the inodes of an ext2      *)
(* volume, or opens one file's inode, and reports slack space.              *)
(*                                                                         *)
(* The model follows one invocation of main(): the optional volume scan    *)
(* (scan_device) followed by the optional single-file scan (scan_file).    *)
(* The libext2fs driver and the OS are the environment: every driver call  *)
(* is a step whose outcome (success, error, the inode delivered) is chosen *)
(* nondeterministically.                                                   *)
(*                                                                         *)
(* Integer widths are scaled down so that TLC can enumerate them: size_t   *)
(* and blk64_t (64 bits in the build) are SizeBits wide, unsigned (32      *)
(* bits in the build) is UnsignedBits wide.  The relation that matters,    *)
(* unsigned being narrower than size_t, is kept.                           *)
(***************************************************************************)
EXTENDS Integers, Sequences, FiniteSets, TLC

(* ------------------------------ bounds -------------------------------- *)
SizeBits == 6
UnsignedBits == 3
MaxInodes == 2
MaxCalcBlk == 6
MaxCalcBlocks == 4
MaxCalcSize == 30

SizeMod == 2 ^ SizeBits
UnsignedMod == 2 ^ UnsignedBits

\* Block sizes a volume can have (ext2 block sizes are powers of two).
BlockSizes == {2, 4}

\* What a never-assigned stack slot of type ext2_ino_t can hold.
GarbageDirs == {0, MaxInodes + 1}

\* Data-block counts of the inodes on the volume: none, and enough for the
\* slack to need more than UnsignedBits bits.
BlockCounts == {0, 5}

\* File sizes on the volume: an empty file, one longer than any one block,
\* and a sparse file so long that two of them fill the range of size_t
\* (i_size is a 64-bit field of the inode).
FileSizes == {0, 5, SizeMod \div 2}

\* The inode metadata the driver can deliver: data blocks, i_size, S_ISDIR.
InodeMetas == [blocks : BlockCounts, size : FileSizes, isdir : BOOLEAN]

\* The inode scan_file opens is that of a file; scan_file does not look at
\* its mode.
FileInodes == {m \in InodeMetas : ~m.isdir}

NoInode == [blocks |-> 0, size |-> 0, isdir |-> FALSE]

VARIABLES
    pc,           \* position in main / scan_device / scan_file
    devname,      \* TRUE iff -d <device> was given (devname != NULL)
    fname,        \* TRUE iff -f <file> was given (fname != NULL)
    annoying,     \* -v
    blocksize,    \* fs->blocksize == EXT2_BLOCK_SIZE(fs->super) of the volume
    fs,           \* the ext2_filsys local: "unset", "open", "closed"
    scanner,      \* the ext2_inode_scan local: "unset", "open", "closed"
    totals,       \* scan_device: n_inodes, n_blocks, n_bytes, total_slack
    dir,          \* scan_device: ext2_ino_t dir
    ino,          \* scan_device: ext2_ino_t ino
    err,          \* errcode_t err: 0 or 1 (any nonzero code)
    inode,        \* the inode last fetched (scan_device) or opened (scan_file)
    fetched,      \* inodes the cursor delivered so far in this scan, in order
    calls,        \* driver and OS calls made so far, in order, with outcome
    records,      \* stdout: per-inode lines printed by process_inode
    summaries,    \* stdout: lines printed by print_summary
    errors,       \* stderr: error reports
    exit_status,  \* "running", "EXIT_SUCCESS", "EXIT_FAILURE", "SIGSEGV"
    calc_in,      \* arguments of a stand-alone calc_slack call
    calc_out      \* its result, -1 before the call

vars == <<pc, devname, fname, annoying, blocksize, fs, scanner, totals, dir,
          ino, err, inode, fetched, calls, records, summaries, errors,
          exit_status, calc_in, calc_out>>

prog == <<pc, devname, fname, annoying, blocksize, fs, scanner, totals, dir,
          ino, err, inode, fetched, calls, records, summaries, errors,
          exit_status>>

(* ------------------------- integer conversions ------------------------ *)
\* Arithmetic on size_t / blk64_t wraps at the type's width.
ToSize(x) == x % SizeMod

\* Conversion of a size_t to unsigned keeps the low bits.
ToUnsigned(x) == x % UnsignedMod

(* ------------------------------ calc_slack ---------------------------- *)
\* calc_slack without the branch for n_blocks == 0.
calc_slack_no_fallback(blksize, n_blocks, fsize) ==
    LET prod == ToSize(n_blocks * blksize) IN
    IF n_blocks # 0 /\ prod >= fsize THEN prod - fsize ELSE 0

calc_slack(blksize, n_blocks, fsize) ==
    LET prod == ToSize(n_blocks * blksize) IN
    IF n_blocks # 0
    THEN IF prod >= fsize THEN prod - fsize ELSE 0
    ELSE IF blksize >= fsize THEN blksize - fsize ELSE 0

(* ----------------------------- process_inode -------------------------- *)
\* The value process_inode returns: calc_slack's size_t result is stored in
\* `const unsigned slack` and returned through the unsigned return type.
process_inode(blksize, meta) ==
    ToUnsigned(calc_slack(blksize, meta.blocks, meta.size))

\* inode->i_blocks, the raw field: the sectors of the data blocks, which is
\* what ext2fs_inode_data_blocks2 returns (meta.blocks), plus those of the
\* extended-attribute block if the inode has one (i_file_acl != 0;
\* EXT2_CLUSTER_SIZE >> 9 sectors, a sector scaled to 2 bytes). On the
\* volumes modelled the directories carry one (a default ACL) and the
\* files do not.
i_blocks(blksize, meta) ==
    meta.blocks + (IF meta.isdir THEN blksize \div 2 ELSE 0)

\* The line process_inode prints when be_verbose; `path` is what %s shows.
\* The block count shown is inode->i_blocks.
inode_record(blksize, meta, d, i, path) ==
    [ino |-> i, dir |-> d, path |-> path, blocks |-> i_blocks(blksize, meta),
     size |-> meta.size, slack |-> process_inode(blksize, meta)]

(* ----------------------------- scan_device ---------------------------- *)
ZeroTotals == [n_inodes |-> 0, n_blocks |-> 0, n_bytes |-> 0, total_slack |-> 0]

\* The loop body with `total_slack = ...` in place of `total_slack += ...`.
accumulate_assign(t, blksize, meta) ==
    [n_inodes    |-> ToSize(t.n_inodes + 1),
     n_blocks    |-> ToSize(t.n_blocks + meta.blocks),
     n_bytes     |-> ToSize(t.n_bytes + meta.size),
     total_slack |-> process_inode(blksize, meta)]

\* One pass of the loop body over the totals.
accumulate(t, blksize, meta) ==
    [n_inodes    |-> ToSize(t.n_inodes + 1),
     n_blocks    |-> ToSize(t.n_blocks + meta.blocks),
     n_bytes     |-> ToSize(t.n_bytes + meta.size),
     total_slack |-> ToSize(t.total_slack + process_inode(blksize, meta))]

\* The line print_summary prints.
print_summary(name, t) ==
    [name |-> name, n_inodes |-> t.n_inodes, n_blocks |-> t.n_blocks,
     n_bytes |-> t.n_bytes, total_slack |-> t.total_slack]

Call(by, op, res) == [by |-> by, op |-> op, res |-> res]

\* exit(status), or death by signal: the process is gone.
Exit(status) ==
    /\ pc' = "exit"
    /\ exit_status' = status

TypeOK ==
    /\ pc \in {"main", "scan_device", "open_inode_scan", "get_next_inode",
               "cleanup", "print_summary", "scan_device_return", "main_file",
               "scan_file", "get_device_name", "file_open_fs",
               "file_open_inode", "file_close", "main_return", "exit"}
    /\ devname \in BOOLEAN /\ fname \in BOOLEAN /\ annoying \in BOOLEAN
    /\ blocksize \in BlockSizes
    /\ fs \in {"unset", "open", "closed"}
    /\ scanner \in {"unset", "open", "closed"}
    /\ totals \in [n_inodes : 0..(SizeMod - 1), n_blocks : 0..(SizeMod - 1),
                   n_bytes : 0..(SizeMod - 1), total_slack : 0..(SizeMod - 1)]
    /\ dir \in 0..(MaxInodes + 1)
    /\ ino \in 0..MaxInodes
    /\ err \in {0, 1}
    /\ inode \in InodeMetas
    /\ fetched \in Seq(InodeMetas) /\ Len(fetched) <= MaxInodes
    /\ exit_status \in {"running", "EXIT_SUCCESS", "EXIT_FAILURE", "SIGSEGV"}

Init ==
    /\ pc = "main"
    /\ devname \in BOOLEAN
    /\ fname \in BOOLEAN
    /\ annoying \in BOOLEAN
    /\ blocksize \in BlockSizes
    /\ fs = "unset"
    /\ scanner = "unset"
    /\ totals = ZeroTotals
    /\ dir = 0
    /\ ino = 0
    /\ err = 0
    /\ inode = NoInode
    /\ fetched = <<>>
    /\ calls = <<>>
    /\ records = <<>>
    /\ summaries = <<>>
    /\ errors = <<>>
    /\ exit_status = "running"
    /\ calc_in = [blksize |-> 0, n_blocks |-> 0, fsize |-> 0]
    /\ calc_out = -1

(* -------------------------------- main -------------------------------- *)
\* if (!devname && !fname) { fprintf(stderr, ...); exit(EXIT_FAILURE); }
MainNoTarget ==
    /\ pc = "main"
    /\ ~devname /\ ~fname
    /\ errors' = Append(errors, "No device or file specified")
    /\ Exit("EXIT_FAILURE")
    /\ UNCHANGED <<devname, fname, annoying, blocksize, fs, scanner, totals,
                   dir, ino, err, inode, fetched, calls, records, summaries,
                   calc_in, calc_out>>

\* if (devname) scan_device(devname, annoying);
MainDevice ==
    /\ pc = "main"
    /\ devname \/ fname
    /\ pc' = IF devname THEN "scan_device" ELSE "main_file"
    /\ UNCHANGED <<devname, fname, annoying, blocksize, fs, scanner, totals,
                   dir, ino, err, inode, fetched, calls, records, summaries,
                   errors, exit_status, calc_in, calc_out>>

\* if (fname) scan_file(fname, extract);
MainFile ==
    /\ pc = "main_file"
    /\ pc' = IF fname THEN "scan_file" ELSE "main_return"
    /\ UNCHANGED <<devname, fname, annoying, blocksize, fs, scanner, totals,
                   dir, ino, err, inode, fetched, calls, records, summaries,
                   errors, exit_status, calc_in, calc_out>>

\* return 0;
MainReturn ==
    /\ pc = "main_return"
    /\ Exit("EXIT_SUCCESS")
    /\ UNCHANGED <<devname, fname, annoying, blocksize, fs, scanner, totals,
                   dir, ino, err, inode, fetched, calls, records, summaries,
                   errors, calc_in, calc_out>>

(* ----------------------------- scan_device ---------------------------- *)
\* ext2fs_open succeeds.
DevOpenOk ==
    /\ pc = "scan_device"
    /\ calls' = Append(calls, Call("scan_device", "ext2fs_open", "ok"))
    /\ fs' = "open"
    /\ err' = 0
    /\ pc' = "open_inode_scan"
    /\ UNCHANGED <<devname, fname, annoying, blocksize, scanner, totals, dir,
                   ino, inode, fetched, records, summaries, errors,
                   exit_status, calc_in, calc_out>>

\* ext2fs_open fails and the exit is missing: the scan goes on.
DevOpenFailFallThrough ==
    /\ pc = "scan_device"
    /\ calls' = Append(calls, Call("scan_device", "ext2fs_open", "error"))
    /\ err' = 1
    /\ errors' = Append(errors, "Error opening device")
    /\ pc' = "open_inode_scan"
    /\ UNCHANGED <<devname, fname, annoying, blocksize, fs, scanner, totals,
                   dir, ino, inode, fetched, records, summaries, exit_status,
                   calc_in, calc_out>>

\* ext2fs_open fails and scan_device returns to main instead of exiting.
DevOpenFailReturn ==
    /\ pc = "scan_device"
    /\ calls' = Append(calls, Call("scan_device", "ext2fs_open", "error"))
    /\ err' = 1
    /\ errors' = Append(errors, "Error opening device")
    /\ pc' = "main_file"
    /\ UNCHANGED <<devname, fname, annoying, blocksize, fs, scanner, totals,
                   dir, ino, inode, fetched, records, summaries, exit_status,
                   calc_in, calc_out>>

\* ext2fs_open fails: the error is printed and the process exits.
DevOpenFail ==
    /\ pc = "scan_device"
    /\ calls' = Append(calls, Call("scan_device", "ext2fs_open", "error"))
    /\ err' = 1
    /\ errors' = Append(errors, "Error opening device")
    /\ Exit("EXIT_FAILURE")
    /\ UNCHANGED <<devname, fname, annoying, blocksize, fs, scanner, totals,
                   dir, ino, inode, fetched, records, summaries, calc_in,
                   calc_out>>

\* n_inodes = n_blocks = n_bytes = total_slack = 0;
\* ext2fs_open_inode_scan(fs, 0, &scanner); its return value is not looked at.
\* `dir` has not been assigned: it holds whatever the stack slot held.
DevOpenInodeScan(res, garbage) ==
    /\ pc = "open_inode_scan"
    /\ totals' = ZeroTotals
    /\ calls' = Append(calls, Call("scan_device", "ext2fs_open_inode_scan", res))
    /\ scanner' = IF res = "ok" THEN "open" ELSE "unset"
    /\ dir' = garbage
    /\ pc' = "get_next_inode"
    /\ UNCHANGED <<devname, fname, annoying, blocksize, fs, ino, err, inode,
                   fetched, records, summaries, errors, exit_status, calc_in,
                   calc_out>>

DevOpenInodeScanOk == \E g \in GarbageDirs : DevOpenInodeScan("ok", g)

DevOpenInodeScanFail == \E g \in GarbageDirs : DevOpenInodeScan("error", g)

\* The loop body with `dir = ino` done after process_inode has run.
DevLoopBodyLateDir(meta, path) ==
    LET i == Len(fetched) + 1
    IN  /\ err' = 0
        /\ ino' = i
        /\ inode' = meta
        /\ fetched' = Append(fetched, meta)
        /\ dir' = IF meta.isdir THEN i ELSE dir
        /\ records' = IF annoying
                      THEN Append(records,
                                  inode_record(blocksize, meta, dir, i, path))
                      ELSE records
        /\ totals' = accumulate(totals, blocksize, meta)
        /\ pc' = "get_next_inode"

\* One iteration of the while loop: ext2fs_get_next_inode delivers inode
\* number Len(fetched) + 1 with metadata `meta`, then the body runs. `path`
\* is "" when nothing is printed, else what the record shows as the name.
DevLoopBody(meta, path) ==
    LET i == Len(fetched) + 1
        d == IF meta.isdir THEN i ELSE dir
    IN  /\ err' = 0
        /\ ino' = i
        /\ inode' = meta
        /\ fetched' = Append(fetched, meta)
        /\ dir' = d
        /\ records' = IF annoying
                      THEN Append(records,
                                  inode_record(blocksize, meta, d, i, path))
                      ELSE records
        /\ totals' = accumulate(totals, blocksize, meta)
        /\ pc' = "get_next_inode"

\* The loop body without -v: process_inode prints nothing.
DevNextInodeQuiet ==
    /\ pc = "get_next_inode"
    /\ scanner = "open"
    /\ ~annoying
    /\ Len(fetched) < MaxInodes
    /\ \E meta \in InodeMetas : DevLoopBody(meta, "")
    /\ calls' = Append(calls, Call("scan_device", "ext2fs_get_next_inode", "ok"))
    /\ UNCHANGED <<devname, fname, annoying, blocksize, fs, scanner,
                   summaries, errors, exit_status, calc_in, calc_out>>

\* The loop body with -v, ext2fs_get_pathname succeeding.
DevNextInodeVerbose ==
    /\ pc = "get_next_inode"
    /\ scanner = "open"
    /\ annoying
    /\ Len(fetched) < MaxInodes
    /\ \E meta \in InodeMetas : DevLoopBody(meta, "name")
    /\ calls' = calls \o
                <<Call("scan_device", "ext2fs_get_next_inode", "ok"),
                  Call("scan_device", "ext2fs_get_pathname", "ok")>>
    /\ UNCHANGED <<devname, fname, annoying, blocksize, fs, scanner,
                   summaries, errors, exit_status, calc_in, calc_out>>

\* The loop body with -v, ext2fs_get_pathname failing: its return value is
\* not looked at and `name` was never assigned. printf("%s") and
\* ext2fs_free_mem then work on an indeterminate pointer; here they get
\* through, and the record shows whatever the pointer led to.
DevNextInodeGarbageName ==
    /\ pc = "get_next_inode"
    /\ scanner = "open"
    /\ annoying
    /\ Len(fetched) < MaxInodes
    /\ \E meta \in InodeMetas : DevLoopBody(meta, "garbage")
    /\ calls' = calls \o
                <<Call("scan_device", "ext2fs_get_next_inode", "ok"),
                  Call("scan_device", "ext2fs_get_pathname", "error")>>
    /\ UNCHANGED <<devname, fname, annoying, blocksize, fs, scanner,
                   summaries, errors, exit_status, calc_in, calc_out>>

\* As above, but the indeterminate pointer kills the process in printf or
\* in free, before the totals are updated.
DevNextInodeNameCrash ==
    /\ pc = "get_next_inode"
    /\ scanner = "open"
    /\ annoying
    /\ Len(fetched) < MaxInodes
    /\ \E meta \in InodeMetas :
          /\ inode' = meta
          /\ fetched' = Append(fetched, meta)
          /\ ino' = Len(fetched) + 1
          /\ dir' = IF meta.isdir THEN Len(fetched) + 1 ELSE dir
    /\ err' = 0
    /\ calls' = calls \o
                <<Call("scan_device", "ext2fs_get_next_inode", "ok"),
                  Call("scan_device", "ext2fs_get_pathname", "error")>>
    /\ Exit("SIGSEGV")
    /\ UNCHANGED <<devname, fname, annoying, blocksize, fs, scanner, totals,
                   records, summaries, errors, calc_in, calc_out>>

\* The terminator is noticed only after the body has run on it.
DevNextInodeTerminatorCounted ==
    /\ pc = "get_next_inode"
    /\ scanner = "open"
    /\ err' = 0
    /\ ino' = 0
    /\ totals' = accumulate(totals, blocksize, inode)
    /\ calls' = Append(calls,
                       Call("scan_device", "ext2fs_get_next_inode", "terminator"))
    /\ pc' = "cleanup"
    /\ UNCHANGED <<devname, fname, annoying, blocksize, fs, scanner, dir,
                   inode, fetched, records, summaries, errors, exit_status,
                   calc_in, calc_out>>

\* ext2fs_get_next_inode returns 0 with ino == 0: the loop ends.
DevNextInodeTerminator ==
    /\ pc = "get_next_inode"
    /\ scanner = "open"
    /\ err' = 0
    /\ ino' = 0
    /\ calls' = Append(calls,
                       Call("scan_device", "ext2fs_get_next_inode", "terminator"))
    /\ pc' = "cleanup"
    /\ UNCHANGED <<devname, fname, annoying, blocksize, fs, scanner, totals,
                   dir, inode, fetched, records, summaries, errors,
                   exit_status, calc_in, calc_out>>

\* ext2fs_get_next_inode returns an error and what was counted is dropped.
DevNextInodeErrorDiscard ==
    /\ pc = "get_next_inode"
    /\ scanner = "open"
    /\ err' = 1
    /\ totals' = ZeroTotals
    /\ calls' = Append(calls,
                       Call("scan_device", "ext2fs_get_next_inode", "error"))
    /\ pc' = "cleanup"
    /\ UNCHANGED <<devname, fname, annoying, blocksize, fs, scanner, dir, ino,
                   inode, fetched, records, summaries, errors, exit_status,
                   calc_in, calc_out>>

\* ext2fs_get_next_inode returns an error: the loop ends the same way.
DevNextInodeError ==
    /\ pc = "get_next_inode"
    /\ scanner = "open"
    /\ err' = 1
    /\ calls' = Append(calls,
                       Call("scan_device", "ext2fs_get_next_inode", "error"))
    /\ pc' = "cleanup"
    /\ UNCHANGED <<devname, fname, annoying, blocksize, fs, scanner, totals,
                   dir, ino, inode, fetched, records, summaries, errors,
                   exit_status, calc_in, calc_out>>

\* ext2fs_get_next_inode on the never-assigned scanner (ext2fs_open_inode_scan
\* failed): the magic check reads through an indeterminate pointer and
\* returns an error ...
DevNextInodeUnsetError ==
    /\ pc = "get_next_inode"
    /\ scanner = "unset"
    /\ err' = 1
    /\ calls' = Append(calls,
                       Call("scan_device", "ext2fs_get_next_inode", "error"))
    /\ pc' = "cleanup"
    /\ UNCHANGED <<devname, fname, annoying, blocksize, fs, scanner, totals,
                   dir, ino, inode, fetched, records, summaries, errors,
                   exit_status, calc_in, calc_out>>

\* ... or the read faults.
DevNextInodeUnsetCrash ==
    /\ pc = "get_next_inode"
    /\ scanner = "unset"
    /\ calls' = Append(calls,
                       Call("scan_device", "ext2fs_get_next_inode", "crash"))
    /\ Exit("SIGSEGV")
    /\ UNCHANGED <<devname, fname, annoying, blocksize, fs, scanner, totals,
                   dir, ino, err, inode, fetched, records, summaries, errors,
                   calc_in, calc_out>>

\* ext2fs_close_inode_scan(scanner); ext2fs_close(fs);
\* On the never-assigned scanner the close finds no magic and does nothing.
DevCleanup ==
    /\ pc = "cleanup"
    /\ calls' = calls \o
                <<Call("scan_device", "ext2fs_close_inode_scan",
                       IF scanner = "open" THEN "ok" ELSE "unset"),
                  Call("scan_device", "ext2fs_close", "ok")>>
    /\ scanner' = IF scanner = "open" THEN "closed" ELSE scanner
    /\ fs' = "closed"
    /\ pc' = "print_summary"
    /\ UNCHANGED <<devname, fname, annoying, blocksize, totals, dir, ino, err,
                   inode, fetched, records, summaries, errors, exit_status,
                   calc_in, calc_out>>

\* print_summary(devname, n_inodes, n_blocks, n_bytes, total_slack);
DevPrintSummary ==
    /\ pc = "print_summary"
    /\ summaries' = Append(summaries, print_summary("devname", totals))
    /\ pc' = "scan_device_return"
    /\ UNCHANGED <<devname, fname, annoying, blocksize, fs, scanner, totals,
                   dir, ino, err, inode, fetched, calls, records, errors,
                   exit_status, calc_in, calc_out>>

\* scan_device returns to main: its locals are gone.
DevReturn ==
    /\ pc = "scan_device_return"
    /\ fs' = "unset"
    /\ scanner' = "unset"
    /\ totals' = ZeroTotals
    /\ dir' = 0
    /\ ino' = 0
    /\ err' = 0
    /\ inode' = NoInode
    /\ fetched' = <<>>
    /\ pc' = "main_file"
    /\ UNCHANGED <<devname, fname, annoying, blocksize, calls, records,
                   summaries, errors, exit_status, calc_in, calc_out>>

(* ------------------------------ scan_file ----------------------------- *)
\* stat(fname, &st) == -1
FileStatFail ==
    /\ pc = "scan_file"
    /\ calls' = Append(calls, Call("scan_file", "stat", "error"))
    /\ errors' = Append(errors, "Error calling stat")
    /\ Exit("EXIT_FAILURE")
    /\ UNCHANGED <<devname, fname, annoying, blocksize, fs, scanner, totals,
                   dir, ino, err, inode, fetched, records, summaries,
                   calc_in, calc_out>>

FileStatOk ==
    /\ pc = "scan_file"
    /\ calls' = Append(calls, Call("scan_file", "stat", "ok"))
    /\ pc' = "get_device_name"
    /\ UNCHANGED <<devname, fname, annoying, blocksize, fs, scanner, totals,
                   dir, ino, err, inode, fetched, records, summaries,
                   errors, exit_status, calc_in, calc_out>>

\* get_device_name: /proc/partitions cannot be read, holds no line for the
\* device, or malloc fails.
GetDeviceNameFail ==
    /\ pc = "get_device_name"
    /\ errors' = Append(errors, "Error finding device string")
    /\ Exit("EXIT_FAILURE")
    /\ UNCHANGED <<devname, fname, annoying, blocksize, fs, scanner, totals,
                   dir, ino, err, inode, fetched, calls, records, summaries,
                   calc_in, calc_out>>

GetDeviceNameOk ==
    /\ pc = "get_device_name"
    /\ pc' = "file_open_fs"
    /\ UNCHANGED <<devname, fname, annoying, blocksize, fs, scanner, totals,
                   dir, ino, err, inode, fetched, calls, records, summaries,
                   errors, exit_status, calc_in, calc_out>>

FileOpenFsFail ==
    /\ pc = "file_open_fs"
    /\ calls' = Append(calls, Call("scan_file", "ext2fs_open", "error"))
    /\ err' = 1
    /\ errors' = Append(errors, "Error opening device")
    /\ Exit("EXIT_FAILURE")
    /\ UNCHANGED <<devname, fname, annoying, blocksize, fs, scanner, totals,
                   dir, ino, inode, fetched, records, summaries, calc_in,
                   calc_out>>

FileOpenFsOk ==
    /\ pc = "file_open_fs"
    /\ calls' = Append(calls, Call("scan_file", "ext2fs_open", "ok"))
    /\ err' = 0
    /\ fs' = "open"
    /\ pc' = "file_open_inode"
    /\ UNCHANGED <<devname, fname, annoying, blocksize, scanner, totals, dir,
                   ino, inode, fetched, records, summaries, errors,
                   exit_status, calc_in, calc_out>>

\* ext2fs_file_open fails: the error is printed and the process exits; the
\* ext2fs_close at the end of scan_file is not reached.
FileOpenInodeFail ==
    /\ pc = "file_open_inode"
    /\ calls' = Append(calls, Call("scan_file", "ext2fs_file_open", "error"))
    /\ err' = 1
    /\ errors' = Append(errors, "Error opening file")
    /\ Exit("EXIT_FAILURE")
    /\ UNCHANGED <<devname, fname, annoying, blocksize, fs, scanner, totals,
                   dir, ino, inode, fetched, records, summaries, calc_in,
                   calc_out>>

\* scan_file taking the slack through process_inode's unsigned.
scan_file_totals_unsigned(blksize, meta) ==
    [n_inodes    |-> 1,
     n_blocks    |-> meta.blocks,
     n_bytes     |-> meta.size,
     total_slack |-> process_inode(blksize, meta)]

\* The totals scan_file computes from the inode it opened.
scan_file_totals(blksize, meta) ==
    [n_inodes    |-> 1,
     n_blocks    |-> meta.blocks,
     n_bytes     |-> meta.size,
     total_slack |-> calc_slack(blksize, meta.blocks, meta.size)]

\* ext2fs_file_open succeeds; the inode's numbers are computed and printed.
FileOpenInodeOk ==
    /\ pc = "file_open_inode"
    /\ calls' = Append(calls, Call("scan_file", "ext2fs_file_open", "ok"))
    /\ err' = 0
    /\ \E meta \in FileInodes :
          /\ inode' = meta
          /\ totals' = scan_file_totals(blocksize, meta)
    /\ summaries' = Append(summaries, print_summary("fname", totals'))
    /\ pc' = "file_close"
    /\ UNCHANGED <<devname, fname, annoying, blocksize, fs, scanner, dir, ino,
                   fetched, records, errors, exit_status, calc_in, calc_out>>

\* ext2fs_close(fs); free(devname); and scan_file returns.
FileClose ==
    /\ pc = "file_close"
    /\ calls' = Append(calls, Call("scan_file", "ext2fs_close", "ok"))
    /\ fs' = "closed"
    /\ pc' = "main_return"
    /\ UNCHANGED <<devname, fname, annoying, blocksize, scanner, totals, dir,
                   ino, err, inode, fetched, records, summaries, errors,
                   exit_status, calc_in, calc_out>>

Next ==
    \/ MainNoTarget
    \/ MainDevice
    \/ MainFile
    \/ MainReturn
    \/ DevOpenOk
    \/ DevOpenFail
    \/ DevOpenInodeScanOk
    \/ DevOpenInodeScanFail
    \/ DevNextInodeQuiet
    \/ DevNextInodeVerbose
    \/ DevNextInodeGarbageName
    \/ DevNextInodeNameCrash
    \/ DevNextInodeTerminator
    \/ DevNextInodeError
    \/ DevNextInodeUnsetError
    \/ DevNextInodeUnsetCrash
    \/ DevCleanup
    \/ DevPrintSummary
    \/ DevReturn
    \/ FileStatFail
    \/ FileStatOk
    \/ GetDeviceNameFail
    \/ GetDeviceNameOk
    \/ FileOpenFsFail
    \/ FileOpenFsOk
    \/ FileOpenInodeFail
    \/ FileOpenInodeOk
    \/ FileClose

Spec == Init /\ [][Next]_vars

(* ------------------- calc_slack called on its own --------------------- *)
CalcInputs ==
    [blksize : 0..MaxCalcBlk, n_blocks : 0..MaxCalcBlocks, fsize : 0..MaxCalcSize]

InitCalc ==
    /\ pc = "exit"
    /\ devname = FALSE
    /\ fname = FALSE
    /\ annoying = FALSE
    /\ blocksize \in BlockSizes
    /\ fs = "unset"
    /\ scanner = "unset"
    /\ totals = ZeroTotals
    /\ dir = 0
    /\ ino = 0
    /\ err = 0
    /\ inode = NoInode
    /\ fetched = <<>>
    /\ calls = <<>>
    /\ records = <<>>
    /\ summaries = <<>>
    /\ errors = <<>>
    /\ exit_status = "running"
    /\ calc_in \in CalcInputs
    /\ calc_out = -1

CalcSlack ==
    /\ calc_out = -1
    /\ calc_out' = calc_slack(calc_in.blksize, calc_in.n_blocks, calc_in.fsize)
    /\ UNCHANGED <<calc_in, prog>>

NextCalc == CalcSlack

SpecCalc == InitCalc /\ [][NextCalc]_vars

(* ===================== properties of the program ====================== *)
Has(by, op, res) == \E i \in 1..Len(calls) : calls[i] = Call(by, op, res)

CallsOf(by, op) == SelectSeq(calls, LAMBDA c : c.by = by /\ c.op = op)

CallsBy(by) == SelectSeq(calls, LAMBDA c : c.by = by)

SummariesOf(name) == SelectSeq(summaries, LAMBDA l : l.name = name)

\* The slack of the specification, on unbounded integers.
slack_reference(b, n, s) ==
    IF n > 0
    THEN IF n * b >= s THEN n * b - s ELSE 0
    ELSE IF b >= s THEN b - s ELSE 0

RECURSIVE SumSeq(_)
SumSeq(seq) == IF seq = <<>> THEN 0 ELSE Head(seq) + SumSeq(Tail(seq))

SumOver(seq, f(_)) == SumSeq([i \in 1..Len(seq) |-> f(seq[i])])

\* The loop of scan_device run over an enumeration, from zeroed totals.
RECURSIVE FoldTotals(_, _)
FoldTotals(seq, blksize) ==
    IF seq = <<>> THEN ZeroTotals
    ELSE accumulate(FoldTotals(SubSeq(seq, 1, Len(seq) - 1), blksize),
                    blksize, seq[Len(seq)])

\* The volume scan has left its loop on the terminator and has printed.
ScanEndedOnTerminator ==
    /\ pc = "scan_device_return"
    /\ Has("scan_device", "ext2fs_get_next_inode", "terminator")

\* C1: for all bounded non-negative b, n, s, calc_slack(b, n, s) is the
\* reference slack (n*b - s or b - s, clamped at 0) and is never negative.
C1_CalcSlackIsReference ==
    calc_out # -1 =>
        /\ calc_out = slack_reference(calc_in.blksize, calc_in.n_blocks,
                                      calc_in.fsize)
        /\ calc_out >= 0

C1_Witness ==
    /\ calc_out = 0
    /\ calc_in.n_blocks > 0
    /\ calc_in.n_blocks * calc_in.blksize < calc_in.fsize

\* C2: a volume scan that ends on the terminator reports the fold over the
\* inodes enumerated: their number, the sum of their blocks, of their sizes
\* and of their slack, no slack value altered on its way into the sum.
C2_TotalsAreTheFold ==
    ScanEndedOnTerminator =>
        summaries[Len(summaries)] =
            [name        |-> "devname",
             n_inodes    |-> Len(fetched),
             n_blocks    |-> SumOver(fetched, LAMBDA m : m.blocks),
             n_bytes     |-> SumOver(fetched, LAMBDA m : m.size),
             total_slack |-> SumOver(fetched, LAMBDA m :
                                 slack_reference(blocksize, m.blocks, m.size))]

\* The volume scan is over: scan_device returned or the process ended in it.
DevScanOver ==
    /\ CallsBy("scan_device") # <<>>
    /\ pc \in {"scan_device_return", "main_file", "scan_file",
               "get_device_name", "file_open_fs", "file_open_inode",
               "file_close", "main_return", "exit"}

\* C3: when the volume scan is over, the handle and the cursor have each
\* been released exactly once if acquired and not at all if not, and
\* scan_device made no driver call after releasing the handle.
C3_ReleasedExactlyOnce ==
    DevScanOver =>
        LET dev == CallsBy("scan_device")
        IN  /\ Len(CallsOf("scan_device", "ext2fs_close")) =
                  (IF Has("scan_device", "ext2fs_open", "ok") THEN 1 ELSE 0)
            /\ Len(CallsOf("scan_device", "ext2fs_close_inode_scan")) =
                  (IF Has("scan_device", "ext2fs_open_inode_scan", "ok")
                   THEN 1 ELSE 0)
            /\ \A i \in 1..Len(dev) :
                  dev[i].op = "ext2fs_close" => i = Len(dev)

\* C4: a driver error of nextInode on an open cursor ends the process with
\* an error report and a failure status.
C4_NextInodeErrorIsFatal ==
    (/\ pc = "exit"
     /\ Has("scan_device", "ext2fs_open_inode_scan", "ok")
     /\ Has("scan_device", "ext2fs_get_next_inode", "error"))
    => (exit_status = "EXIT_FAILURE" /\ errors # <<>>)

\* C5: on one volume, the slack scan_file reports for an inode is the slack
\* scan_device adds for an inode with the same blocks and size: a volume
\* scan of exactly one such inode prints the same slack as the file scan.
C5_FileAndVolumeAgree ==
    \A i, j \in 1..Len(summaries) :
        (/\ summaries[i].name = "devname"
         /\ summaries[j].name = "fname"
         /\ summaries[i].n_inodes = 1
         /\ summaries[i].n_blocks = summaries[j].n_blocks
         /\ summaries[i].n_bytes = summaries[j].n_bytes)
        => summaries[i].total_slack = summaries[j].total_slack

\* C6: once opening the volume has failed in scan_device, the process has
\* exited with failure and a report, no summary exists, no cursor was
\* opened and nextInode was not called.
C6_OpenFailureAborts ==
    Has("scan_device", "ext2fs_open", "error") =>
        /\ pc = "exit"
        /\ exit_status = "EXIT_FAILURE"
        /\ errors = <<"Error opening device">>
        /\ summaries = <<>>
        /\ scanner = "unset"
        /\ CallsOf("scan_device", "ext2fs_open_inode_scan") = <<>>
        /\ CallsOf("scan_device", "ext2fs_get_next_inode") = <<>>

C6_Witness ==
    /\ Has("scan_device", "ext2fs_open", "error")
    /\ pc = "exit"
    /\ ~fname

\* C7 as stated: with -d and -f both given and the volume failing to open,
\* the process still carries out the file scan.
C7_FileScanStillRuns ==
    (/\ pc = "exit"
     /\ devname /\ fname
     /\ Has("scan_device", "ext2fs_open", "error"))
    => CallsBy("scan_file") # <<>>

\* C7, amended: with -d and -f both given and the volume failing to open,
\* the process ends there with a failure status; scan_file is never entered
\* and no summary for the file is printed.
C7_OpenFailureEndsProcess ==
    (/\ devname /\ fname
     /\ Has("scan_device", "ext2fs_open", "error"))
    => /\ pc = "exit"
       /\ exit_status = "EXIT_FAILURE"
       /\ CallsBy("scan_file") = <<>>
       /\ SummariesOf("fname") = <<>>

C7_Witness ==
    /\ devname /\ fname
    /\ Has("scan_device", "ext2fs_open", "error")
    /\ pc = "exit"

\* C8: a file scan that acquired the filesystem handle has released it by
\* the time the scan ends, on every exit path.
C8_FileHandleReleased ==
    (pc = "exit" /\ Has("scan_file", "ext2fs_open", "ok"))
    => Has("scan_file", "ext2fs_close", "ok")

\* C9: a volume scan that ended on the terminator reports the totals that
\* the scan of every reordering of its enumeration reports.
C9_OrderIndependent ==
    ScanEndedOnTerminator =>
        \A p \in Permutations(1..Len(fetched)) :
            summaries[Len(summaries)] =
                print_summary("devname",
                    FoldTotals([i \in 1..Len(fetched) |-> fetched[p[i]]],
                               blocksize))

C9_Witness ==
    /\ ScanEndedOnTerminator
    /\ Len(fetched) = 2
    /\ process_inode(blocksize, fetched[1]) # process_inode(blocksize, fetched[2])
    /\ fetched[1].blocks # fetched[2].blocks
    /\ fetched[1].size # fetched[2].size

\* C10: a volume scan whose first nextInode call returns the terminator
\* reports 0 inodes, 0 blocks, 0 bytes, 0 slack and prints no record, with
\* or without -v.
C10_EmptyScan ==
    LET next == CallsOf("scan_device", "ext2fs_get_next_inode")
    IN  (next # <<>> /\ next[1].res = "terminator") =>
            /\ records = <<>>
            /\ \A i \in 1..Len(summaries) :
                  summaries[i].name = "devname" =>
                      summaries[i] = print_summary("devname", ZeroTotals)
            /\ pc \in {"scan_device_return", "main_file"} =>
                  SummariesOf("devname") # <<>>

C10_Witness ==
    /\ pc = "scan_device_return"
    /\ annoying
    /\ CallsOf("scan_device", "ext2fs_get_next_inode") =
           <<Call("scan_device", "ext2fs_get_next_inode", "terminator")>>
    /\ summaries = <<print_summary("devname", ZeroTotals)>>

\* The file scan got its inode: ext2fs_file_open succeeded.
FileScanSucceeded == Has("scan_file", "ext2fs_file_open", "ok")

\* C11: a successful single-file scan prints exactly one summary for the
\* file: 1 inode, the inode's blocks and size, and slack(blockSize, blocks,
\* size); scan_file never opens or advances a scan cursor.
C11_FileScanSummary ==
    FileScanSucceeded =>
        /\ SummariesOf("fname") =
              <<[name        |-> "fname",
                 n_inodes    |-> 1,
                 n_blocks    |-> inode.blocks,
                 n_bytes     |-> inode.size,
                 total_slack |-> slack_reference(blocksize, inode.blocks,
                                                 inode.size)]>>
        /\ CallsOf("scan_file", "ext2fs_open_inode_scan") = <<>>
        /\ CallsOf("scan_file", "ext2fs_get_next_inode") = <<>>

C11_Witness ==
    /\ FileScanSucceeded
    /\ pc = "exit"
    /\ exit_status = "EXIT_SUCCESS"
    /\ slack_reference(blocksize, inode.blocks, inode.size) >= UnsignedMod

\* C12: once ext2fs_open_inode_scan has failed, scan_device calls neither
\* nextInode nor closeInodeScan on the cursor that was not opened.
C12_NoCallOnUnopenedCursor ==
    Has("scan_device", "ext2fs_open_inode_scan", "error") =>
        /\ CallsOf("scan_device", "ext2fs_get_next_inode") = <<>>
        /\ CallsOf("scan_device", "ext2fs_close_inode_scan") = <<>>

\* The volume scan has left its loop on a nextInode error and has printed.
ScanEndedOnError ==
    /\ pc = "scan_device_return"
    /\ Has("scan_device", "ext2fs_get_next_inode", "error")

\* C13: when nextInode fails after k inodes were fetched, the summary
\* printed is the accumulation over exactly those k inodes: their number,
\* their blocks, their sizes and the slack computed for each of them.
C13_PartialTotalsKept ==
    ScanEndedOnError =>
        /\ Len(CallsOf("scan_device", "ext2fs_get_next_inode")) =
              Len(fetched) + 1
        /\ summaries[Len(summaries)] =
              [name        |-> "devname",
               n_inodes    |-> ToSize(Len(fetched)),
               n_blocks    |-> ToSize(SumOver(fetched, LAMBDA m : m.blocks)),
               n_bytes     |-> ToSize(SumOver(fetched, LAMBDA m : m.size)),
               total_slack |-> ToSize(SumOver(fetched, LAMBDA m :
                                   process_inode(blocksize, m)))]

C13_Witness ==
    /\ ScanEndedOnError
    /\ Len(fetched) = 2
    /\ totals.n_blocks > 0
    /\ totals.n_bytes > 0
    /\ totals.total_slack > 0

\* The records whose inode is still among `fetched` (the scan's locals are
\* alive): record i is about inode records[i].ino.
LiveRecords == {i \in 1..Len(records) : records[i].ino <= Len(fetched)}

\* The number of the last directory among the first k inodes fetched, 0 if
\* there is none.
RECURSIVE LastDir(_)
LastDir(k) ==
    IF k = 0 THEN 0
    ELSE IF fetched[k].isdir THEN k ELSE LastDir(k - 1)

\* C14: whenever the directory-tracking id is used for path resolution it
\* is 0 if no directory was enumerated so far, and otherwise the id of the
\* most recently enumerated directory.
C14_DirIsDefined ==
    \A i \in LiveRecords : records[i].dir = LastDir(records[i].ino)

\* C15 as stated: a directory's own record is resolved with the tracking id
\* of before the update, not with the directory's own id.
C15_DirRecordUsesPreviousId ==
    \A i \in LiveRecords :
        fetched[records[i].ino].isdir => records[i].dir # records[i].ino

\* C15, amended: when a directory inode is processed, the tracking id is set
\* to its id before its record is computed, so the directory's own record
\* is resolved with the directory's own id.
C15_DirRecordUsesOwnId ==
    /\ \A i \in LiveRecords :
          fetched[records[i].ino].isdir => records[i].dir = records[i].ino
    /\ (pc = "get_next_inode" /\ fetched # <<>> /\ fetched[Len(fetched)].isdir)
          => dir = Len(fetched)

C15_Witness ==
    /\ pc = "get_next_inode"
    /\ Len(fetched) = 2
    /\ Len(records) = 2
    /\ fetched[1].isdir /\ fetched[2].isdir
    /\ records[2].dir = 2
    /\ dir = 2

\* C16: when resolvePath fails in a verbose scan the process does not die,
\* no record shows a path read from the unset name, and the summary is the
\* one the same enumeration gives with every resolution succeeding.
C16_ResolveFailureIsHarmless ==
    Has("scan_device", "ext2fs_get_pathname", "error") =>
        /\ exit_status # "SIGSEGV"
        /\ \A i \in 1..Len(records) : records[i].path # "garbage"
        /\ pc = "scan_device_return" =>
              summaries[Len(summaries)] =
                  print_summary("devname", FoldTotals(fetched, blocksize))

\* C17: from one loop iteration to the next no component of the totals
\* decreases, the counters being SizeBits wide.
C17_TotalsNeverDecrease ==
    [][(pc = "get_next_inode" /\ pc' = "get_next_inode") =>
          /\ totals'.n_inodes >= totals.n_inodes
          /\ totals'.n_blocks >= totals.n_blocks
          /\ totals'.n_bytes >= totals.n_bytes
          /\ totals'.total_slack >= totals.total_slack]_vars

\* C18: a volume scan that got its handle leaves the loop, releases cursor
\* and handle and prints its summary before the process ends, and fetches
\* nothing after a terminator or an error.
C18_ScanRunsToCompletion ==
    LET next == CallsOf("scan_device", "ext2fs_get_next_inode")
    IN  /\ \A i \in 1..Len(next) :
              next[i].res \in {"terminator", "error"} => i = Len(next)
        /\ (pc = "exit" /\ Has("scan_device", "ext2fs_open", "ok")) =>
              /\ Len(CallsOf("scan_device", "ext2fs_close_inode_scan")) = 1
              /\ Len(CallsOf("scan_device", "ext2fs_close")) = 1
              /\ SummariesOf("devname") # <<>>

\* The calls a volume scan makes when the cursor's opening answers `opened`
\* and the cursor delivers k inodes and then `last`.
ScanCalls(opened, k, last) ==
    <<Call("scan_device", "ext2fs_open", "ok"),
      Call("scan_device", "ext2fs_open_inode_scan", opened)>>
    \o [i \in 1..k |-> Call("scan_device", "ext2fs_get_next_inode", "ok")]
    \o <<Call("scan_device", "ext2fs_get_next_inode", last),
         Call("scan_device", "ext2fs_close_inode_scan",
              IF opened = "ok" THEN "ok" ELSE "unset"),
         Call("scan_device", "ext2fs_close", "ok")>>

\* C19: what a finished volume scan has called (open, cursor, nextInode,
\* close) and what it has summed depends on the driver's answers to those
\* calls only, so it is the same with and without -v.
C19_VerboseChangesNothing ==
    (/\ pc \in {"scan_device_return", "exit"}
     /\ Has("scan_device", "ext2fs_open", "ok")
     /\ ~Has("scan_device", "ext2fs_get_next_inode", "crash"))
    => LET made == SelectSeq(calls, LAMBDA c :
                       c.by = "scan_device" /\ c.op # "ext2fs_get_pathname")
           k == Len(SelectSeq(made, LAMBDA c :
                       c.op = "ext2fs_get_next_inode" /\ c.res = "ok"))
       IN  /\ \E opened \in {"ok", "error"}, last \in {"terminator", "error"} :
                  made = ScanCalls(opened, k, last)
           /\ Len(fetched) = k =>
                  SummariesOf("devname") =
                      <<print_summary("devname", FoldTotals(fetched, blocksize))>>

\* C20: in a verbose volume scan every record shows the block count that
\* was added to the total for its inode, so the block counts of the records
\* add up to the block count of the summary.
C20_RecordBlocksAreCounted ==
    (pc = "scan_device_return" /\ annoying) =>
        /\ \A i \in LiveRecords :
              records[i].blocks = fetched[records[i].ino].blocks
        /\ ToSize(SumOver(records, LAMBDA l : l.blocks)) =
              summaries[Len(summaries)].n_blocks

====
